---- MODULE Spec2Model ----
(***************************************************************************)
(* A model of sc2shp.py: the command-line entry point and parse_data, the  *)
(* pipeline that reads a JSON list of GPS packets, expands every packet    *)
(* into per-fix rows, concatenates them, parses the timestamps, builds the *)
(* GeoDataFrame, prints the per-user summary and writes the GeoPackage.    *)
(*                                                                         *)
(* Python strings that the program slices, lowers or converts are modelled *)
(* as sequences of one-character strings, so that in_path[-5:], .lower(),  *)
(* .replace(",", "."), float() and int() are computed, not assumed.        *)
(***************************************************************************)
EXTENDS Integers, Sequences, FiniteSets, TLC

\* ------------------------------------------------------------------------
\* Bounds of the model
\* ------------------------------------------------------------------------
\* the longest list of packets the input file holds
MaxPackets == 2

\* the largest number of fixes of a generated packet
MaxFix == 2

\* ------------------------------------------------------------------------
\* Python values handed to parse_data: str, bool, None, or "not passed"
\* ------------------------------------------------------------------------
PyStr(s) == [t |-> "str", s |-> s, b |-> FALSE]

PyBool(b) == [t |-> "bool", s |-> <<>>, b |-> b]

PyNone == [t |-> "none", s |-> <<>>, b |-> FALSE]

Absent == [t |-> "absent", s |-> <<>>, b |-> FALSE]

\* truth value of a Python object in `if x:`
Truthy(x) ==
    CASE x.t = "bool" -> x.b
      [] x.t = "str" -> x.s # <<>>
      [] OTHER -> FALSE

\* ------------------------------------------------------------------------
\* Strings
\* ------------------------------------------------------------------------
DotJson == <<".", "j", "s", "o", "n">>

DotGpkg == <<".", "g", "p", "k", "g">>

\* s[-5:]
Last5(s) == IF Len(s) <= 5 THEN s ELSE SubSeq(s, Len(s) - 4, Len(s))

UpperLetters == <<"A", "B", "C", "D", "E", "F", "G", "H", "I", "J", "K", "L", "M",
                  "N", "O", "P", "Q", "R", "S", "T", "U", "V", "W", "X", "Y", "Z">>

LowerLetters == <<"a", "b", "c", "d", "e", "f", "g", "h", "i", "j", "k", "l", "m",
                  "n", "o", "p", "q", "r", "s", "t", "u", "v", "w", "x", "y", "z">>

LowerChar(c) ==
    IF \E i \in 1..26 : UpperLetters[i] = c
    THEN LowerLetters[CHOOSE i \in 1..26 : UpperLetters[i] = c]
    ELSE c

\* s.lower()
Lower(s) == [i \in 1..Len(s) |-> LowerChar(s[i])]

StrTrue == <<"t", "r", "u", "e">>

StrFalse == <<"f", "a", "l", "s", "e">>

\* n.replace(",", ".")
ReplaceComma(s) == [i \in 1..Len(s) |-> IF s[i] = "," THEN "." ELSE s[i]]

Digits == <<"0", "1", "2", "3", "4", "5", "6", "7", "8", "9">>

IsDigit(c) == \E i \in 1..10 : Digits[i] = c

DigitVal(c) == (CHOOSE i \in 1..10 : Digits[i] = c) - 1

RECURSIVE DigitsToNat(_)
DigitsToNat(s) ==
    IF s = <<>> THEN 0
    ELSE 10 * DigitsToNat(SubSeq(s, 1, Len(s) - 1)) + DigitVal(s[Len(s)])

HasSign(s) == Len(s) > 0 /\ s[1] \in {"-", "+"}

Unsigned(s) == IF HasSign(s) THEN Tail(s) ELSE s

OnlyDigits(s) == SelectSeq(s, IsDigit)

IsDot(c) == c = "."

\* int(n) succeeds: an optional sign and one or more decimal digits
IntOk(s) ==
    LET u == Unsigned(s)
    IN  Len(u) > 0 /\ \A i \in 1..Len(u) : IsDigit(u[i])

\* int(n)
IntVal(s) ==
    LET v == DigitsToNat(Unsigned(s))
    IN  IF HasSign(s) /\ s[1] = "-" THEN 0 - v ELSE v

\* float(n) succeeds: an optional sign, digits with at most one point, and
\* at least one digit
FloatOk(s) ==
    LET u == Unsigned(s)
    IN  /\ \A i \in 1..Len(u) : IsDigit(u[i]) \/ IsDot(u[i])
        /\ Len(SelectSeq(u, IsDot)) <= 1
        /\ Len(OnlyDigits(u)) >= 1

RECURSIVE Normalise(_, _)
Normalise(num, scale) ==
    IF num = 0 THEN [num |-> 0, scale |-> 0]
    ELSE IF scale > 0 /\ num % 10 = 0 THEN Normalise(num \div 10, scale - 1)
    ELSE [num |-> num, scale |-> scale]

\* float(n): the value num / 10^scale, in lowest decimal terms
FloatVal(s) ==
    LET u == Unsigned(s)
        dot == IF \E i \in 1..Len(u) : IsDot(u[i])
               THEN CHOOSE i \in 1..Len(u) : IsDot(u[i])
               ELSE Len(u) + 1
        frac == IF dot > Len(u) THEN 0 ELSE Len(u) - dot
        mag == Normalise(DigitsToNat(OnlyDigits(u)), frac)
    IN  IF HasSign(s) /\ s[1] = "-"
        THEN [num |-> 0 - mag.num, scale |-> mag.scale]
        ELSE mag

\* ------------------------------------------------------------------------
\* Packets of the input document
\* ------------------------------------------------------------------------
\* the six keys parse_data reads from a packet, in the order of the source
Fields == <<"user_id", "longitude", "latitude", "timestamp", "accuracy", "device_details">>

FieldSet == {Fields[i] : i \in 1..Len(Fields)}

\* `has` is the set of keys the JSON object holds; d[k] raises KeyError for
\* every other key (the value stored under an absent key is never read)
HasKey(d, k) == k \in d.has

Without(d, k) == [d EXCEPT !.has = @ \ {k}]

\* the i-th fix of a generated packet: comma-locale longitude, dot-locale
\* latitude, integer accuracy, all different from position to position and
\* from column to column
LonOf(i) == <<"-", Digits[(i % 10) + 1], ",", "5">>

LatOf(i) == <<"5", Digits[(i % 10) + 1], ".", "4">>

AccOf(i) == <<Digits[(i % 10) + 1], "0">>

TsPool == <<"2022-04-19 16:23:09", "2022-04-18 09:00:00",
            "2022-04-20 08:15:30", "2022-04-17 12:00:00">>

TsOf(k) == TsPool[((k - 1) % Len(TsPool)) + 1]

\* a well-formed packet of n fixes whose timestamps start at TsOf(k + 1)
Good(u, dv, n, k) ==
    [has |-> FieldSet,
     user_id |-> u,
     longitude |-> [i \in 1..n |-> LonOf(i)],
     latitude |-> [i \in 1..n |-> LatOf(i)],
     timestamp |-> [i \in 1..n |-> TsOf(k + i)],
     accuracy |-> [i \in 1..n |-> AccOf(i)],
     device_details |-> dv]

GoodPackets ==
    {Good("A", "d1", n, 0) : n \in 0..MaxFix}
        \cup {Good("A", "d2", 1, 2), Good("B", "d1", 1, 1), Good("B", "d2", 2, 1)}

BasePacket == Good("A", "d1", 1, 0)

LongPacket == Good("A", "d1", MaxFix, 0)

MissingFieldPackets == {Without(BasePacket, k) : k \in FieldSet}

\* "-1.2,5" has two separators after the replacement, "" is empty, "7.0" is
\* a float literal that int() refuses
BadNumberPackets ==
    {[BasePacket EXCEPT !.longitude = <<<<"-", "1", ".", "2", ",", "5">>>>],
     [BasePacket EXCEPT !.latitude = <<<<>>>>],
     [BasePacket EXCEPT !.accuracy = <<<<"7", ".", "0">>>>]}

ShortenedBy1(s) == SubSeq(s, 1, Len(s) - 1)

LengthMismatchPackets ==
    {[LongPacket EXCEPT !.latitude = ShortenedBy1(@)],
     [LongPacket EXCEPT !.timestamp = ShortenedBy1(@)]}

\* an empty timestamp string, and one that is no date at all
OddTimestampPackets ==
    {[BasePacket EXCEPT !.timestamp = <<"">>],
     [BasePacket EXCEPT !.timestamp = <<"not a date">>]}

PacketPool ==
    GoodPackets \cup MissingFieldPackets \cup BadNumberPackets
        \cup LengthMismatchPackets \cup OddTimestampPackets

RECURSIVE SeqsUpTo(_, _)
SeqsUpTo(S, n) ==
    IF n = 0 THEN {<<>>}
    ELSE LET shorter == SeqsUpTo(S, n - 1)
         IN  shorter \cup {Append(s, x) : s \in {t \in shorter : Len(t) = n - 1}, x \in S}

\* ------------------------------------------------------------------------
\* DataFrames: a record of equally long columns
\* ------------------------------------------------------------------------
EmptyFrame ==
    [user_id |-> <<>>, longitude |-> <<>>, latitude |-> <<>>,
     timestamp |-> <<>>, accuracy |-> <<>>, device_details |-> <<>>]

NoError == [kind |-> "none", arg |-> ""]

KeyError(k) == [kind |-> "KeyError", arg |-> k]

ValueError(what) == [kind |-> "ValueError", arg |-> what]

Repeat(x, n) == [i \in 1..n |-> x]

\* Columns with the latitude column taken from the longitude field
ColumnsLatFromLon(d) ==
    [user_id |-> Repeat(d.user_id, Len(d.longitude)),
     longitude |-> [i \in 1..Len(d.longitude) |-> FloatVal(ReplaceComma(d.longitude[i]))],
     latitude |-> [i \in 1..Len(d.longitude) |-> FloatVal(ReplaceComma(d.longitude[i]))],
     timestamp |-> d.timestamp,
     accuracy |-> [i \in 1..Len(d.accuracy) |-> IntVal(d.accuracy[i])],
     device_details |-> Repeat(d.device_details, Len(d.longitude))]

\* the six columns of lines 56-61, built from the packet's fields
Columns(d) ==
    [user_id |-> Repeat(d.user_id, Len(d.longitude)),
     longitude |-> [i \in 1..Len(d.longitude) |-> FloatVal(ReplaceComma(d.longitude[i]))],
     latitude |-> [i \in 1..Len(d.latitude) |-> FloatVal(ReplaceComma(d.latitude[i]))],
     timestamp |-> d.timestamp,
     accuracy |-> [i \in 1..Len(d.accuracy) |-> IntVal(d.accuracy[i])],
     device_details |-> Repeat(d.device_details, Len(d.longitude))]

\* the first exception the expression of lines 55-62 raises, in Python's
\* evaluation order (dictionary entries left to right, then the DataFrame
\* constructor's check that all columns have one length)
ExpandError(d) ==
    CASE ~HasKey(d, "user_id") -> KeyError("user_id")
      [] ~HasKey(d, "longitude") -> KeyError("longitude")
      [] \E i \in 1..Len(d.longitude) : ~FloatOk(ReplaceComma(d.longitude[i])) -> ValueError("float")
      [] ~HasKey(d, "latitude") -> KeyError("latitude")
      [] \E i \in 1..Len(d.latitude) : ~FloatOk(ReplaceComma(d.latitude[i])) -> ValueError("float")
      [] ~HasKey(d, "timestamp") -> KeyError("timestamp")
      [] ~HasKey(d, "accuracy") -> KeyError("accuracy")
      [] \E i \in 1..Len(d.accuracy) : ~IntOk(d.accuracy[i]) -> ValueError("int")
      [] ~HasKey(d, "device_details") -> KeyError("device_details")
      [] \E k \in {"latitude", "timestamp", "accuracy"} : Len(d[k]) # Len(d.longitude) -> ValueError("length")
      [] OTHER -> NoError

\* the exceptions the except clause of line 63 catches
CaughtInLoop(e) == e.kind \in {"KeyError", "ValueError"}

ConcatColumn(frames, c) ==
    LET RECURSIVE Cat(_)
        Cat(k) == IF k = 0 THEN <<>> ELSE Cat(k - 1) \o frames[k][c]
    IN  Cat(Len(frames))

\* Concat with the frames taken last to first
ConcatReversed(frames) ==
    LET rev == [k \in 1..Len(frames) |-> frames[Len(frames) + 1 - k]]
    IN  [user_id |-> ConcatColumn(rev, "user_id"),
         longitude |-> ConcatColumn(rev, "longitude"),
         latitude |-> ConcatColumn(rev, "latitude"),
         timestamp |-> ConcatColumn(rev, "timestamp"),
         accuracy |-> ConcatColumn(rev, "accuracy"),
         device_details |-> ConcatColumn(rev, "device_details")]

\* pandas.concat(dfs): the rows of the frames, one frame after the other
Concat(frames) ==
    [user_id |-> ConcatColumn(frames, "user_id"),
     longitude |-> ConcatColumn(frames, "longitude"),
     latitude |-> ConcatColumn(frames, "latitude"),
     timestamp |-> ConcatColumn(frames, "timestamp"),
     accuracy |-> ConcatColumn(frames, "accuracy"),
     device_details |-> ConcatColumn(frames, "device_details")]

\* ConcatError of a concat that returns an empty frame for an empty list
ConcatErrorNever(frames) == NoError

\* pandas.concat raises ValueError("No objects to concatenate") on []
ConcatError(frames) == IF frames = <<>> THEN ValueError("concat") ELSE NoError

NRows(frame) == Len(frame.user_id)

\* ------------------------------------------------------------------------
\* Timestamps
\* ------------------------------------------------------------------------
\* pandas' missing date-time; every parsed date-time is a positive number
NaT == -1

\* the strings to_datetime turns into NaT instead of parsing them
NatStrings == {"", "NaT", "nat", "NAT", "nan", "NaN", "NAN"}

\* the date-time a parseable string denotes, as its rank in time order
DateTimeOf(s) ==
    CASE s = "2022-04-17 12:00:00" -> 1
      [] s = "2022-04-18 09:00:00" -> 2
      [] s = "2022-04-19 16:23:09" -> 3
      [] s = "2022-04-20 08:15:30" -> 4
      [] OTHER -> 0

Parseable(s) == s \in NatStrings \/ DateTimeOf(s) > 0

\* to_datetime of one entry
ToDatetime(s) == IF s \in NatStrings THEN NaT ELSE DateTimeOf(s)

\* to_datetime raises (a ValueError subclass) on a string it cannot parse,
\* and nothing catches it
ToDatetimeError(col) ==
    IF \E i \in 1..Len(col) : ~Parseable(col[i]) THEN ValueError("datetime") ELSE NoError

\* ------------------------------------------------------------------------
\* GeoDataFrame
\* ------------------------------------------------------------------------
WGS84 == "+proj=longlat +datum=WGS84 +no_defs"

EmptyGeoFrame ==
    [user_id |-> <<>>, timestamp |-> <<>>, accuracy |-> <<>>,
     device_details |-> <<>>, geometry |-> <<>>, crs |-> ""]

\* shapely Point(ll) for ll in zip(df.longitude, df.latitude)
Point(lon, lat) == [x |-> lon, y |-> lat]

\* lines 83-86: drop the two coordinate columns, add the geometry column
ToGeoDataFrame(frame) ==
    [user_id |-> frame.user_id,
     timestamp |-> frame.timestamp,
     accuracy |-> frame.accuracy,
     device_details |-> frame.device_details,
     geometry |-> [i \in 1..Len(frame.longitude) |-> Point(frame.longitude[i], frame.latitude[i])],
     crs |-> WGS84]

\* ------------------------------------------------------------------------
\* The per-user summary of lines 92-97
\* ------------------------------------------------------------------------
\* the user ids of the packet pool in sorted order: groupby sorts its keys
Users == <<"A", "B">>

RowsOf(g, u) == {i \in 1..Len(g.user_id) : g.user_id[i] = u}

\* groupby(gdf['user_id']): one group per user id that occurs, keys sorted
GroupKeys(g) ==
    LET Occurs(u) == RowsOf(g, u) # {}
    IN  SelectSeq(Users, Occurs)

MinOf(S) == CHOOSE x \in S : \A y \in S : x <= y

MaxOf(S) == CHOOSE x \in S : \A y \in S : x >= y

\* min, max and count of a group of a date-time column all skip NaT
Aggregate(g, u) ==
    LET valid == {g.timestamp[i] : i \in {j \in RowsOf(g, u) : g.timestamp[j] # NaT}}
        n == Cardinality({j \in RowsOf(g, u) : g.timestamp[j] # NaT})
    IN  [user_id |-> u,
         First_Log |-> IF valid = {} THEN NaT ELSE MinOf(valid),
         Last_Log |-> IF valid = {} THEN NaT ELSE MaxOf(valid),
         N_Logs |-> n]

\* .agg(First_Log='min', Last_Log='max', N_Logs='count').reset_index()
LeftTable(g) ==
    LET keys == GroupKeys(g)
    IN  [k \in 1..Len(keys) |-> Aggregate(g, keys[k])]

\* gdf['device_details'].groupby(gdf['user_id']).first().reset_index()
RightTable(g) ==
    LET keys == GroupKeys(g)
    IN  [k \in 1..Len(keys) |->
            [user_id |-> keys[k],
             device_details |-> g.device_details[MinOf(RowsOf(g, keys[k]))]]]

Descending(rows) ==
    \A i \in 1..Len(rows) : \A j \in 1..Len(rows) : i < j => rows[i].N_Logs >= rows[j].N_Logs

\* sort_values(['N_Logs'], ascending=False) with the default kind='quicksort':
\* every arrangement of the rows with non-increasing N_Logs is a possible
\* result, since quicksort gives no promise about rows with equal keys
SortValues(rows) ==
    {sorted \in {[i \in 1..Len(rows) |-> rows[p[i]]] : p \in Permutations(1..Len(rows))} :
        Descending(sorted)}

\* Merge that keeps the order of the right table instead of the left
MergeRightOrder(left, right) ==
    LET Match(r) ==
            LET Same(l) == l.user_id = r.user_id
                ls == SelectSeq(left, Same)
            IN  [k \in 1..Len(ls) |->
                    [user_id |-> r.user_id, First_Log |-> ls[k].First_Log,
                     Last_Log |-> ls[k].Last_Log, N_Logs |-> ls[k].N_Logs,
                     device_details |-> r.device_details]]
        RECURSIVE Join(_)
        Join(k) == IF k = 0 THEN <<>> ELSE Join(k - 1) \o Match(right[k])
    IN  Join(Len(right))

\* merge(left, right, how="inner", on='user_id'): the rows of left, in the
\* order of left, each joined with the rows of right of the same user_id
Merge(left, right) ==
    LET Match(l) ==
            LET Same(r) == r.user_id = l.user_id
                rs == SelectSeq(right, Same)
            IN  [k \in 1..Len(rs) |->
                    [user_id |-> l.user_id, First_Log |-> l.First_Log,
                     Last_Log |-> l.Last_Log, N_Logs |-> l.N_Logs,
                     device_details |-> rs[k].device_details]]
        RECURSIVE Join(_)
        Join(k) == IF k = 0 THEN <<>> ELSE Join(k - 1) \o Match(left[k])
    IN  Join(Len(left))

\* ------------------------------------------------------------------------
\* Console output: one entry per print call
\* ------------------------------------------------------------------------
Line(kind, key, n, table) == [kind |-> kind, key |-> key, n |-> n, table |-> table]

Msg(kind) == Line(kind, "", 0, <<>>)

HasLine(o, kind) == \E i \in 1..Len(o) : o[i].kind = kind

\* ------------------------------------------------------------------------
\* The export of lines 101-115
\* ------------------------------------------------------------------------
\* what gdf.to_file does: it writes the layer, or the driver fails
WriteOutcomes == {"ok", "DriverIOError"}

\* CaughtInExport of an export without the except clause
CaughtInExportNothing(e) == FALSE

\* the exceptions the except clause of line 113 catches
CaughtInExport(e) == e = "DriverIOError"

\* ------------------------------------------------------------------------
\* State
\* ------------------------------------------------------------------------
VARIABLES
    pc,          \* the statement the run is at
    args,        \* vars(parser.parse_args()): flag name -> str or None
    argi,        \* position of the loop of line 128 in ArgNames
    kwargs,      \* the keyword arguments collected for parse_data
    in_path, out_path, export, report, debug,   \* parse_data's parameters
    fileExists,  \* whether the input file exists
    fileData,    \* the list under 'packets' in the input file
    data,        \* data['packets'] once loaded
    idx,         \* position of the loop of line 51 in data (0 before it)
    dfs,         \* the list of per-packet DataFrames
    df,          \* the concatenated DataFrame
    gdf,         \* the GeoDataFrame
    out,         \* what has been printed
    written,     \* the layers written to disk
    err,         \* the exception that ended the run, if one did
    status       \* "running", or the exit status of the process

vars == <<pc, args, argi, kwargs, in_path, out_path, export, report, debug,
          fileExists, fileData, data, idx, dfs, df, gdf, out, written, err, status>>

params == <<in_path, out_path, export, report, debug>>

files == <<fileExists, fileData>>

cli == <<args, argi, kwargs>>

frames == <<data, idx, dfs, df, gdf>>

\* the flags of lines 121-125, in the order vars() lists them
ArgNames == <<"in_path", "out_path", "export", "report", "debug">>

ArgSet == {ArgNames[i] : i \in 1..Len(ArgNames)}

\* ------------------------------------------------------------------------
\* How a run ends
\* ------------------------------------------------------------------------
\* exit(1)
Exit1 == pc' = "exited" /\ status' = "1" /\ err' = NoError

\* an exception nothing catches: the interpreter prints the traceback and
\* the process ends with status 1
Raise(e) == pc' = "crashed" /\ status' = "1" /\ err' = e

Goto(label) == pc' = label /\ status' = status /\ err' = err

Echo(lines) == out' = out \o lines

\* ------------------------------------------------------------------------
\* The entry point, lines 119-134
\* ------------------------------------------------------------------------
\* lines 129-133 for one flag: a falsy value (None or '') is skipped, 'true'
\* and 'false' in any case become booleans, anything else stays a string
Convert(v) ==
    IF ~Truthy(v) THEN Absent
    ELSE IF Lower(v.s) \in {StrTrue, StrFalse} THEN PyBool(Lower(v.s) = StrTrue)
    ELSE v

\* one round of the loop of line 128
MainLoop ==
    /\ pc = "main"
    /\ argi <= Len(ArgNames)
    /\ kwargs' = [kwargs EXCEPT ![ArgNames[argi]] = Convert(args[ArgNames[argi]])]
    /\ argi' = argi + 1
    /\ UNCHANGED <<pc, args, params, files, frames, out, written, err, status>>

\* the value a parameter of parse_data is bound to (signature, line 19)
Bound(kw, name, default) == IF kw[name] = Absent THEN default ELSE kw[name]

\* line 134, parse_data(**kwargs): in_path has no default
MainCall ==
    /\ pc = "main"
    /\ argi > Len(ArgNames)
    /\ IF kwargs["in_path"] = Absent
       THEN /\ Raise([kind |-> "TypeError", arg |-> "in_path"])
            /\ UNCHANGED params
       ELSE /\ in_path' = kwargs["in_path"]
            /\ out_path' = Bound(kwargs, "out_path", PyStr(<<>>))
            /\ export' = Bound(kwargs, "export", PyBool(TRUE))
            /\ report' = Bound(kwargs, "report", PyBool(TRUE))
            /\ debug' = Bound(kwargs, "debug", PyBool(FALSE))
            /\ Goto("check_in")
    /\ UNCHANGED <<cli, files, frames, out, written>>

\* ------------------------------------------------------------------------
\* parse_data, lines 19-116
\* ------------------------------------------------------------------------
NotSubscriptable == [kind |-> "TypeError", arg |-> "subscript"]

\* in_path[-5:] != ".json"
BadInPath(p) == Last5(p.s) # DotJson

\* BadOutPath without the `if export:` around the test
BadOutPathAlways(e, p) == Last5(p.s) # DotGpkg

\* the test of lines 35-36
BadOutPath(e, p) == Truthy(e) /\ Last5(p.s) # DotGpkg

\* lines 30-32
CheckInPath ==
    /\ pc = "check_in"
    /\ IF in_path.t # "str"
       THEN Raise(NotSubscriptable) /\ UNCHANGED out
       ELSE IF BadInPath(in_path)
       THEN Echo(<<Msg("ERROR: Input file must be *.json file")>>) /\ Exit1
       ELSE Goto("check_out") /\ UNCHANGED out
    /\ UNCHANGED <<cli, params, files, frames, written>>

\* lines 35-38
CheckOutPath ==
    /\ pc = "check_out"
    /\ IF Truthy(export) /\ out_path.t # "str"
       THEN Raise(NotSubscriptable) /\ UNCHANGED out
       ELSE IF BadOutPath(export, out_path)
       THEN Echo(<<Msg("ERROR: Output file path must be *.gpkg if --export=True")>>) /\ Exit1
       ELSE Goto("load") /\ UNCHANGED out
    /\ UNCHANGED <<cli, params, files, frames, written>>

\* lines 41-50
LoadJson ==
    /\ pc = "load"
    /\ IF ~fileExists
       THEN /\ Echo(<<Msg("Input file not found")>>)
            /\ Exit1
            /\ UNCHANGED <<data, idx, dfs>>
       ELSE /\ data' = fileData
            /\ Echo(<<Line("retrieved", "", Len(fileData), <<>>)>>)
            /\ dfs' = <<>>
            /\ idx' = 1
            /\ Goto("loop")
    /\ UNCHANGED <<cli, params, files, df, gdf, written>>

\* what lines 65-72 print for packet d after exception e, up to the first
\* field the packet lacks
DebugLines(d, e) ==
    LET present == {i \in 1..Len(Fields) : \A j \in 1..i : HasKey(d, Fields[j])}
        shown == [i \in 1..Cardinality(present) |-> Line("field", Fields[i], 0, <<>>)]
    IN  <<Line("exception", e.kind, 0, <<>>)>> \o shown
            \o (IF Cardinality(present) = Len(Fields) THEN <<Msg("")>> ELSE <<>>)

\* the KeyError a print of lines 66-71 raises, inside the handler
DebugError(d) ==
    IF \A k \in FieldSet : HasKey(d, k) THEN NoError
    ELSE KeyError(Fields[CHOOSE i \in 1..Len(Fields) :
                            ~HasKey(d, Fields[i]) /\ \A j \in 1..(i - 1) : HasKey(d, Fields[j])])

\* one round of the loop of line 51: lines 54-73 for packet data[idx]
ExpandPacket ==
    /\ pc = "loop"
    /\ idx <= Len(data)
    /\ LET d == data[idx]
           e == ExpandError(d)
       IN  IF e = NoError
           THEN /\ dfs' = Append(dfs, Columns(d))
                /\ idx' = idx + 1
                /\ Goto("loop")
                /\ UNCHANGED out
           ELSE IF ~CaughtInLoop(e)
           THEN Raise(e) /\ UNCHANGED <<dfs, idx, out>>
           ELSE IF ~Truthy(debug)
           THEN /\ idx' = idx + 1
                /\ Goto("loop")
                /\ UNCHANGED <<dfs, out>>
           ELSE /\ Echo(DebugLines(d, e))
                /\ IF DebugError(d) = NoError
                   THEN idx' = idx + 1 /\ Goto("loop")
                   ELSE Raise(DebugError(d)) /\ UNCHANGED idx
                /\ UNCHANGED dfs
    /\ UNCHANGED <<cli, params, files, data, df, gdf, written>>

\* lines 76-77, after the loop
ConcatFrames ==
    /\ pc = "loop"
    /\ idx > Len(data)
    /\ IF ConcatError(dfs) # NoError
       THEN Raise(ConcatError(dfs)) /\ UNCHANGED <<df, out>>
       ELSE /\ df' = Concat(dfs)
            /\ Echo(<<Line("records", "", NRows(Concat(dfs)), <<>>)>>)
            /\ Goto("datetime")
    /\ UNCHANGED <<cli, params, files, data, idx, dfs, gdf, written>>

\* line 80
ParseTimestamps ==
    /\ pc = "datetime"
    /\ IF ToDatetimeError(df.timestamp) # NoError
       THEN Raise(ToDatetimeError(df.timestamp)) /\ UNCHANGED df
       ELSE /\ df' = [df EXCEPT !.timestamp = [i \in 1..Len(@) |-> ToDatetime(@[i])]]
            /\ Goto("geo")
    /\ UNCHANGED <<cli, params, files, data, idx, dfs, gdf, out, written>>

\* lines 83-87
BuildGeoDataFrame ==
    /\ pc = "geo"
    /\ gdf' = ToGeoDataFrame(df)
    /\ df' = EmptyFrame
    /\ Goto("report")
    /\ UNCHANGED <<cli, params, files, data, idx, dfs, out, written>>

\* lines 90-98
Report ==
    /\ pc = "report"
    /\ IF Truthy(report)
       THEN \E sorted \in SortValues(LeftTable(gdf)) :
                Echo(<<Msg(""),
                       Line("summary", "", 0, Merge(sorted, RightTable(gdf))),
                       Msg("")>>)
       ELSE UNCHANGED out
    /\ Goto("export")
    /\ UNCHANGED <<cli, params, files, frames, written>>

\* the layer to_file writes under the schema of lines 103-111
Layer(path, g) == [path |-> path, layer |-> "gps_traces", rows |-> g]

\* lines 101-116, and the return to the caller: the process ends with 0
Export ==
    /\ pc = "export"
    /\ IF Truthy(export)
       THEN \E w \in WriteOutcomes :
                IF w = "ok"
                THEN /\ written' = Append(written, Layer(out_path.s, gdf))
                     /\ UNCHANGED out
                     /\ pc' = "done" /\ status' = "0" /\ err' = NoError
                ELSE IF CaughtInExport(w)
                THEN /\ Echo(<<Line("exception", w, 0, <<>>),
                               Msg("ERROR: Output file path invalid")>>)
                     /\ UNCHANGED written
                     /\ pc' = "done" /\ status' = "0" /\ err' = NoError
                ELSE /\ Raise([kind |-> w, arg |-> ""])
                     /\ UNCHANGED <<out, written>>
       ELSE /\ UNCHANGED <<out, written>>
            /\ pc' = "done" /\ status' = "0" /\ err' = NoError
    /\ gdf' = IF pc' = "done" THEN EmptyGeoFrame ELSE gdf
    /\ UNCHANGED <<cli, params, files, data, idx, dfs, df>>

\* ------------------------------------------------------------------------
\* Specifications
\* ------------------------------------------------------------------------
Path(name, ext) == name \o ext

\* "", "a.json", "b.gpkg"
PathPool == {<<>>, Path(<<"a">>, DotJson), Path(<<"b">>, DotGpkg)}

NoArgs == [a \in ArgSet |-> PyNone]

NoKwargs == [a \in ArgSet |-> Absent]

Fresh ==
    /\ data = <<>>
    /\ idx = 0
    /\ dfs = <<>>
    /\ df = EmptyFrame
    /\ gdf = EmptyGeoFrame
    /\ out = <<>>
    /\ written = <<>>
    /\ err = NoError
    /\ status = "running"

\* parse_data called with string paths and boolean flags, on a file system
\* where the input file is missing or holds up to MaxPackets packets
Init ==
    /\ pc = "check_in"
    /\ args = NoArgs
    /\ argi = 0
    /\ kwargs = NoKwargs
    /\ in_path \in {PyStr(p) : p \in PathPool}
    /\ out_path \in {PyStr(p) : p \in PathPool}
    /\ export \in {PyBool(b) : b \in BOOLEAN}
    /\ report \in {PyBool(b) : b \in BOOLEAN}
    /\ debug \in {PyBool(b) : b \in BOOLEAN}
    /\ fileExists \in BOOLEAN
    /\ fileData \in IF fileExists THEN SeqsUpTo(PacketPool, MaxPackets) ELSE {<<>>}
    /\ Fresh

Next ==
    \/ CheckInPath
    \/ CheckOutPath
    \/ LoadJson
    \/ ExpandPacket
    \/ ConcatFrames
    \/ ParseTimestamps
    \/ BuildGeoDataFrame
    \/ Report
    \/ Export

Spec == Init /\ [][Next]_vars

\* the command line: -i is required, so in_path is never None; a value is
\* None (flag not given), '' or a word
WordTrue == <<"T", "r", "u", "e">>

WordFALSE == <<"F", "A", "L", "S", "E">>

WordYes == <<"y", "e", "s">>

FlagValues == {PyNone, PyStr(<<>>), PyStr(WordTrue), PyStr(WordFALSE), PyStr(WordYes)}

MainPackets == {BasePacket, Without(BasePacket, "accuracy")}

\* the script started from the shell
InitMain ==
    /\ pc = "main"
    /\ args \in {a \in [ArgSet -> FlagValues \cup {PyStr(p) : p \in PathPool}] :
                    /\ a["in_path"] \in {PyStr(p) : p \in PathPool} \cup {PyStr(WordTrue)}
                    /\ a["out_path"] \in {PyNone} \cup {PyStr(p) : p \in PathPool}
                    /\ \A f \in {"export", "report", "debug"} : a[f] \in FlagValues}
    /\ argi = 1
    /\ kwargs = NoKwargs
    /\ in_path = Absent
    /\ out_path = Absent
    /\ export = Absent
    /\ report = Absent
    /\ debug = Absent
    /\ fileExists \in BOOLEAN
    /\ fileData \in IF fileExists THEN SeqsUpTo(MainPackets, MaxPackets) ELSE {<<>>}
    /\ Fresh

NextMain ==
    \/ MainLoop
    \/ MainCall
    \/ Next

SpecMain == InitMain /\ [][NextMain]_vars

\* ------------------------------------------------------------------------
\* What the properties speak about
\* ------------------------------------------------------------------------
\* a packet as section 3 of the specification wants it: all six fields,
\* every longitude and latitude a number after the comma replacement, every
\* accuracy an integer, the four sequences of one length
WellFormed(d) ==
    /\ d.has = FieldSet
    /\ \A i \in 1..Len(d.longitude) : FloatOk(ReplaceComma(d.longitude[i]))
    /\ \A i \in 1..Len(d.latitude) : FloatOk(ReplaceComma(d.latitude[i]))
    /\ \A i \in 1..Len(d.accuracy) : IntOk(d.accuracy[i])
    /\ Len(d.latitude) = Len(d.longitude)
    /\ Len(d.timestamp) = Len(d.longitude)
    /\ Len(d.accuracy) = Len(d.longitude)

\* the records a well-formed packet stands for, position by position
ExpectedRows(d) ==
    [i \in 1..Len(d.longitude) |->
        [user_id |-> d.user_id,
         longitude |-> FloatVal(ReplaceComma(d.longitude[i])),
         latitude |-> FloatVal(ReplaceComma(d.latitude[i])),
         timestamp |-> d.timestamp[i],
         accuracy |-> IntVal(d.accuracy[i]),
         device_details |-> d.device_details]]

EqualColumns(f) ==
    \A c \in {"longitude", "latitude", "timestamp", "accuracy", "device_details"} :
        Len(f[c]) = Len(f.user_id)

\* the rows of a frame
FrameRows(f) ==
    [i \in 1..Len(f.user_id) |->
        [user_id |-> f.user_id[i],
         longitude |-> f.longitude[i],
         latitude |-> f.latitude[i],
         timestamp |-> f.timestamp[i],
         accuracy |-> f.accuracy[i],
         device_details |-> f.device_details[i]]]

IsFrameOf(f, d) == EqualColumns(f) /\ FrameRows(f) = ExpectedRows(d)

\* the well-formed packets of a list, in the order of the list
Accepted(pk) == SelectSeq(pk, WellFormed)

RECURSIVE ExpectedDataset(_)
ExpectedDataset(pk) ==
    IF pk = <<>> THEN <<>>
    ELSE ExpectedDataset(SubSeq(pk, 1, Len(pk) - 1))
            \o (IF WellFormed(pk[Len(pk)]) THEN ExpectedRows(pk[Len(pk)]) ELSE <<>>)

\* the packet loop has been entered and the run is past it, however it ended
LoopOver == idx >= 1 /\ pc \in {"crashed", "datetime", "geo", "report", "export", "done"}

InLoopCrash == pc = "crashed" /\ idx >= 1 /\ idx <= Len(data)

LastLine(o) == o[Len(o)]

SummaryTable(o) == o[CHOOSE i \in 1..Len(o) : o[i].kind = "summary"].table

UserIndex(u) == CHOOSE i \in 1..Len(Users) : Users[i] = u

\* ------------------------------------------------------------------------
\* C1: a packet that lacks a field, holds a non-numeric longitude, latitude
\* or accuracy, or has sequences of different lengths contributes no record,
\* and every other packet of the run contributes what it contributes without
\* it: once the loop is over, the per-packet frames are exactly the frames
\* of the well-formed packets of the input, in order.
\* ------------------------------------------------------------------------
C1_BadPacketsIsolated ==
    LoopOver =>
        /\ Len(dfs) = Len(Accepted(data))
        /\ \A k \in 1..Len(dfs) : IsFrameOf(dfs[k], Accepted(data)[k])

\* ------------------------------------------------------------------------
\* C2: whatever the packet and the debug flag, the step of the loop appends
\* the packet's records or rejects the packet and goes on; no exception
\* leaves the step, and without debug a rejection prints nothing.
\* ------------------------------------------------------------------------
C2_NoExceptionEscapes ==
    /\ ~InLoopCrash
    /\ (pc = "loop" /\ ~Truthy(debug)) => Len(out) = 1

\* ------------------------------------------------------------------------
\* C3: a well-formed packet of N fixes expands to exactly N records, and
\* record i carries the packet's user_id and device_details with
\* longitude[i], latitude[i], timestamp[i] and accuracy[i].
\* ------------------------------------------------------------------------
C3_AlignedRecords ==
    [][(pc = "loop" /\ idx <= Len(data) /\ WellFormed(data[idx])) =>
            /\ Len(dfs') = Len(dfs) + 1
            /\ SubSeq(dfs', 1, Len(dfs)) = dfs
            /\ NRows(dfs'[Len(dfs')]) = Len(data[idx].longitude)
            /\ IsFrameOf(dfs'[Len(dfs')], data[idx])]_vars

\* a packet of at least two fixes has just been expanded
C3_Witness ==
    /\ pc = "loop"
    /\ idx > 1
    /\ WellFormed(data[idx - 1])
    /\ Len(data[idx - 1].longitude) >= 2
    /\ dfs # <<>>
    /\ NRows(dfs[Len(dfs)]) >= 2

C5_ExitStatus ==
    LET badIn == Last5(in_path.s) # DotJson
        badOut == export.b /\ Last5(out_path.s) # DotGpkg
        fatal == badIn \/ badOut \/ ~fileExists
    IN  /\ fatal => pc \in {"check_in", "check_out", "load", "exited"}
        /\ pc = "exited" =>
              /\ fatal
              /\ status = "1"
              /\ idx = 0 /\ dfs = <<>> /\ written = <<>>
              /\ Len(out) = 1
              /\ out[1].kind \in {"ERROR: Input file must be *.json file",
                                  "ERROR: Output file path must be *.gpkg if --export=True",
                                  "Input file not found"}
        /\ ~export.b => ~HasLine(out, "ERROR: Output file path must be *.gpkg if --export=True")
        /\ pc = "done" <=> status = "0"
        /\ pc \in {"check_in", "check_out", "load", "loop", "datetime", "geo", "report", "export"}
              <=> status = "running"

\* the run has ended with 1 because of the extension of out_path
C5_Witness ==
    /\ pc = "exited"
    /\ status = "1"
    /\ Last5(in_path.s) = DotJson
    /\ export.b
    /\ Last5(out_path.s) # DotGpkg
    /\ fileExists /\ fileData # <<>>

\* ------------------------------------------------------------------------
\* C6: with report and export both set, the summary is printed before the
\* export is tried; a failing export write is caught, its error message is
\* printed after the summary, and parse_data returns normally.
\* ------------------------------------------------------------------------
C6_ExportFailureContained ==
    (report.b /\ export.b) =>
        /\ pc = "export" => (HasLine(out, "summary") /\ written = <<>>)
        /\ written # <<>> => HasLine(out, "summary")
        /\ pc = "crashed" => err.kind # "DriverIOError"
        /\ HasLine(out, "ERROR: Output file path invalid") =>
              /\ pc = "done" /\ status = "0" /\ err = NoError
              /\ Len(out) >= 6
              /\ out[Len(out) - 3].kind = "summary"
              /\ out[Len(out) - 1] = Line("exception", "DriverIOError", 0, <<>>)
              /\ out[Len(out)].kind = "ERROR: Output file path invalid"
              /\ written = <<>>

\* the export has failed after a summary of two users was printed
C6_Witness ==
    /\ pc = "done"
    /\ report.b /\ export.b
    /\ HasLine(out, "summary")
    /\ Len(SummaryTable(out)) = 2
    /\ LastLine(out).kind = "ERROR: Output file path invalid"

\* ------------------------------------------------------------------------
\* C7: for every user_id of the dataset the summary has exactly one row,
\* whose N_Logs is the number of dataset rows of that user, whose First_Log
\* and Last_Log are the least and greatest timestamp of those rows, and
\* whose device_details is the first one seen for the user.
\* ------------------------------------------------------------------------
C7_SummaryCounts ==
    (pc = "export" /\ report.b) =>
        \A u \in {gdf.user_id[i] : i \in 1..Len(gdf.user_id)} :
            LET T == SummaryTable(out)
                mine == {k \in 1..Len(T) : T[k].user_id = u}
                rows == {i \in 1..Len(gdf.user_id) : gdf.user_id[i] = u}
                times == {gdf.timestamp[i] : i \in rows} \ {NaT}
            IN  /\ Cardinality(mine) = 1
                /\ \A k \in mine :
                      /\ T[k].N_Logs = Cardinality(rows)
                      /\ times # {} => T[k].First_Log = MinOf(times)
                      /\ times # {} => T[k].Last_Log = MaxOf(times)
                      /\ T[k].device_details = gdf.device_details[MinOf(rows)]

\* ------------------------------------------------------------------------
\* C8 as stated: the summary is in descending order of the record count,
\* and users with equal counts keep their group order.
\* ------------------------------------------------------------------------
C8_StableTies ==
    (pc = "export" /\ report.b) =>
        LET T == SummaryTable(out)
        IN  \A i \in 1..Len(T) : \A j \in 1..Len(T) :
                i < j => \/ T[i].N_Logs > T[j].N_Logs
                         \/ /\ T[i].N_Logs = T[j].N_Logs
                            /\ UserIndex(T[i].user_id) < UserIndex(T[j].user_id)

\* ------------------------------------------------------------------------
\* C8 as amended: the summary is in descending order of N_Logs and holds
\* every group once (the join keeps the sorted order and drops no user); the
\* order of users with equal N_Logs is not determined.
\* ------------------------------------------------------------------------
C8_DescendingCounts ==
    (pc = "export" /\ report.b) =>
        LET T == SummaryTable(out)
        IN  /\ \A i \in 1..(Len(T) - 1) : T[i].N_Logs >= T[i + 1].N_Logs
            /\ Len(T) = Len(GroupKeys(gdf))
            /\ \A k \in 1..Len(GroupKeys(gdf)) : \E i \in 1..Len(T) : T[i].user_id = GroupKeys(gdf)[k]

\* the user that sorts second has more logs and is printed first
C8_Witness ==
    /\ pc = "export"
    /\ report.b
    /\ Len(SummaryTable(out)) = 2
    /\ SummaryTable(out)[1].user_id = "B"
    /\ SummaryTable(out)[1].N_Logs > SummaryTable(out)[2].N_Logs

\* ------------------------------------------------------------------------
\* C9: every flag given on the command line reaches parse_data: as a
\* boolean when it reads true or false in any case, unchanged otherwise; a
\* flag that was not given is not passed.
\* ------------------------------------------------------------------------
C9_FlagMapping ==
    (pc = "main" /\ argi > Len(ArgNames)) =>
        \A a \in ArgSet :
            /\ args[a] = PyNone => kwargs[a] = Absent
            /\ args[a].t = "str" =>
                  kwargs[a] = IF Lower(args[a].s) = StrTrue THEN PyBool(TRUE)
                              ELSE IF Lower(args[a].s) = StrFalse THEN PyBool(FALSE)
                              ELSE args[a]

\* ------------------------------------------------------------------------
\* C10: the stages after the loop are reached only with at least one
\* accepted packet; when the loop ends with no frame (no packet, or all
\* rejected) the concatenation raises, the run ends abnormally, and neither
\* the record count nor the summary is printed nor a file written.
\* ------------------------------------------------------------------------
C10_NoEmptyDataset ==
    /\ pc \in {"datetime", "geo", "report", "export", "done"} =>
          (dfs # <<>> /\ \E i \in 1..Len(data) : WellFormed(data[i]))
    /\ (pc = "loop" /\ idx > Len(data) /\ \A i \in 1..Len(data) : ~WellFormed(data[i])) =>
          dfs = <<>>
    /\ (idx >= 1 /\ idx > Len(data) /\ dfs = <<>> /\ pc # "loop") =>
          /\ pc = "crashed"
          /\ err = ValueError("concat")
          /\ status = "1"
          /\ ~HasLine(out, "records")
          /\ ~HasLine(out, "summary")
          /\ written = <<>>

\* every packet of a non-empty input was rejected and the run has crashed
C10_Witness ==
    /\ pc = "crashed"
    /\ err = ValueError("concat")
    /\ Len(data) >= 1
    /\ idx = Len(data) + 1

====
